---- MODULE Spec2Model ----
(***************************************************************************)
(* City Reporter: the report management API of src/server/index.tsx (a     *)
(* Hono application on Deno over a key-value store and an identity         *)
(* provider), as a state machine.                                          *)
(*                                                                         *)
(* Every request handler is an async function; each `await` on the store   *)
(* or on the identity provider is a point where other requests run, so a   *)
(* handler is one action per awaited call.  The synchronous code between   *)
(* two awaits belongs to the action of the await that precedes it, and the *)
(* response a handler returns is sent in the step of its last await.       *)
(*                                                                         *)
(* JavaScript values are records tagged by their type: Undef, Null,        *)
(* Str(s), Num(n).  Times are counted in units of 100000 ms (the five      *)
(* sample timestamps are multiples of it, and TLC's integers are 32 bit);  *)
(* NumToString writes the decimal string of the millisecond value.         *)
(***************************************************************************)
EXTENDS Integers, Sequences, FiniteSets, TLC

\* ------------------------------------------------------------------ bounds
\* Number of request slots: requests being handled at the same time.
MaxSlots == 2
\* Number of clock units the clock may advance during a run.
MaxTick == 1
\* The first clock reading of the run (after every sample timestamp).
Now0 == 17327845

\* --------------------------------------------------------- JavaScript values
Undef == [t |-> "undefined"]
Null == [t |-> "null"]
Str(s) == [t |-> "string", s |-> s]
Num(n) == [t |-> "number", n |-> n]

\* JavaScript truthiness, as `!x` and `x || y` use it; a record without a type
\* tag is an object (a report), and objects are truthy.
Truthy(v) ==
    IF "t" \notin DOMAIN v THEN TRUE
    ELSE CASE v.t = "undefined" -> FALSE
           [] v.t = "null" -> FALSE
           [] v.t = "string" -> v.s # ""
           [] v.t = "number" -> v.n # 0
           [] OTHER -> TRUE

\* a || b
OrElse(a, b) == IF Truthy(a) THEN a ELSE b

Digit(d) ==
    CASE d = 0 -> "0" [] d = 1 -> "1" [] d = 2 -> "2" [] d = 3 -> "3"
      [] d = 4 -> "4" [] d = 5 -> "5" [] d = 6 -> "6" [] d = 7 -> "7"
      [] d = 8 -> "8" [] d = 9 -> "9"

RECURSIVE Dec(_)
Dec(n) == IF n < 10 THEN Digit(n) ELSE Dec(n \div 10) \o Digit(n % 10)

\* Number.prototype.toString of a time: n units are n * 100000 milliseconds.
NumToString(n) == IF n = 0 THEN "0" ELSE Dec(n) \o "00000"

\* ------------------------------------------------------------ the KV store
\* `report:${id}`
Key(id) == "report:" \o id

\* kv.get(key): the stored value, or undefined.
KvGet(store, key) == IF key \in DOMAIN store THEN store[key] ELSE Undef

\* kv.set(key, value): upsert.
KvSet(store, key, value) ==
    [k \in DOMAIN store \cup {key} |-> IF k = key THEN value ELSE store[k]]

\* kv.del(key): succeeds whether or not the key exists.
KvDel(store, key) == [k \in DOMAIN store \ {key} |-> store[k]]

RECURSIVE SetToSeq(_)
SetToSeq(S) ==
    IF S = {} THEN <<>>
    ELSE LET x == CHOOSE y \in S : TRUE IN <<x>> \o SetToSeq(S \ {x})

Reverse(s) == [i \in 1..Len(s) |-> s[Len(s) + 1 - i]]

\* kv.getByPrefix('report:'): the stored values in an order the store does not
\* promise; two opposite scan orders are drawn.
GetByPrefix(store, backwards) ==
    LET keys == SetToSeq(DOMAIN store)
        scan == IF backwards THEN Reverse(keys) ELSE keys
    IN [i \in 1..Len(scan) |-> store[scan[i]]]

\* ------------------------------------------------------------------- state
VARIABLES
    kv,         \* the report store: key -> stored record
    now,        \* the wall clock, Date.now()
    sessions,   \* the access tokens the identity provider resolves
    req,        \* the requests being handled that wait on an awaited call
    seed,       \* seedDatabase(): its position and the next sample to write
    resp,       \* the response the latest step sent (NoResp if it sent none)
    app         \* the browser application: App's React state and its calls in flight

vars == <<kv, now, sessions, req, seed, resp, app>>

Slots == 1..MaxSlots
MaxNow == Now0 + MaxTick
Times == Now0..MaxNow


\* ------------------------------------------------------- identity provider
\* Deno.env.get('SUPABASE_ANON_KEY'): the public key every client holds.
AnonKey == "anon-key"

\* The account initAdminUser provisions (user_metadata.role = 'admin').
AdminUser == [t |-> "user", email |-> "sahor@gmail.com", role |-> Str("admin")]

\* Any other account of the identity provider: no role in its metadata.
OtherUser == [t |-> "user", email |-> "citizen@example.com", role |-> Undef]

\* The access token of a session of each account (the identity provider keeps
\* the sessions it opened before the service started), and a token of none.
AdminToken == "token-admin"
OtherToken == "token-other"
BadToken == "token-garbage"
SessionTokens == {AdminToken, OtherToken}

TokenUser(token) == IF token = AdminToken THEN AdminUser ELSE OtherUser

\* supabase.auth.getUser(accessToken): { data: { user }, error }
GetUser(accessToken) ==
    IF accessToken.s \in sessions
    THEN [user |-> TokenUser(accessToken.s), error |-> FALSE]
    ELSE [user |-> Null, error |-> TRUE]

\* ---------------------------------------------------------------- requests
\* An Authorization header is the list of its space-separated parts.
Header(parts) == [t |-> "header", parts |-> parts]

Headers ==
    {Undef, Header(<<"Bearer">>)}
    \cup {Header(<<"Bearer", tk>>) : tk \in {AnonKey, AdminToken, OtherToken, BadToken}}

\* c.req.header('Authorization')?.split(' ')[1]
BearerToken(h) ==
    IF h = Undef THEN Undef
    ELSE IF Len(h.parts) >= 2 THEN Str(h.parts[2]) ELSE Undef

\* The first test of requireAdmin: no token, or the anonymous key.
GuardRejects(accessToken) ==
    \/ ~Truthy(accessToken)
    \/ accessToken = Str(AnonKey)

\* Fault: DELETE /reports/:id registered without the requireAdmin middleware.
GuardedPatchOnly(op) == op = "patch"

\* The routes registered with the requireAdmin middleware.
Guarded(op) == op \in {"patch", "delete"}

\* ['pending', 'in-progress', 'resolved']
Statuses == {"pending", "in-progress", "resolved"}

\* Fault: only `!status` is tested, the includes() test is forgotten.
InvalidStatusFalsyOnly(status) == ~Truthy(status)

\* Fault: a report cannot be moved back to pending.
InvalidStatusNoReopen(status) ==
    ~Truthy(status) \/ status.s \notin {"in-progress", "resolved"}

\* !status || ![...].includes(status)
InvalidStatus(status) ==
    \/ ~Truthy(status)
    \/ ~(status.t = "string" /\ status.s \in Statuses)

\* The ReportType union of the client.
ReportTypes ==
    {"infrastructure", "safety", "environment", "traffic", "public-services", "other"}

\* Fault: the test of `location` is forgotten.
MissingRequiredNoLocation(body) ==
    \/ ~Truthy(body.title)
    \/ ~Truthy(body.description)
    \/ ~Truthy(body.type)

\* !title || !description || !type || !location
MissingRequired(body) ==
    \/ ~Truthy(body.title)
    \/ ~Truthy(body.description)
    \/ ~Truthy(body.type)
    \/ ~Truthy(body.location)

\* Fault: the photo is dropped (imageUrl: null whatever was submitted).
NewReportNoPhoto(body, t1, t2) ==
    [id |-> Str(NumToString(t1)),
     title |-> body.title,
     description |-> body.description,
     type |-> body.type,
     location |-> body.location,
     imageUrl |-> Null,
     status |-> Str("pending"),
     timestamp |-> Num(t2)]

\* Fault: the id is taken from the second clock reading.
NewReportLateId(body, t1, t2) ==
    [id |-> Str(NumToString(t2)),
     title |-> body.title,
     description |-> body.description,
     type |-> body.type,
     location |-> body.location,
     imageUrl |-> OrElse(body.imageUrl, Null),
     status |-> Str("pending"),
     timestamp |-> Num(t2)]

\* The report the create handler builds: id from one clock reading, timestamp
\* from a second one.
NewReport(body, t1, t2) ==
    [id |-> Str(NumToString(t1)),
     title |-> body.title,
     description |-> body.description,
     type |-> body.type,
     location |-> body.location,
     imageUrl |-> OrElse(body.imageUrl, Null),
     status |-> Str("pending"),
     timestamp |-> Num(t2)]

\* Fault: a status update also stamps the report: { ...report, status,
\* timestamp: Date.now() }.
WithStatusStamped(report, status) ==
    [report EXCEPT !.status = status, !.timestamp = Num(now)]

\* Fault: the spread comes last: { status, ...report }.
WithStatusKept(report, status) == report

\* { ...report, status }
WithStatus(report, status) == [report EXCEPT !.status = status]

\* r.value || r
Unwrap(r) ==
    IF "value" \in DOMAIN r /\ Truthy(r.value) THEN r.value ELSE r

\* Fault: a report without a timestamp sorts as the newest.
SortKeyMissingNewest(r) ==
    IF "timestamp" \in DOMAIN r /\ Truthy(r.timestamp) THEN r.timestamp.n ELSE MaxNow + 1

\* b.timestamp || 0, a.timestamp || 0
SortKey(r) ==
    IF "timestamp" \in DOMAIN r /\ Truthy(r.timestamp) THEN r.timestamp.n ELSE 0

\* Fault: the comparator's operands are swapped (oldest first).
CompareAscending(a, b) == SortKey(a) - SortKey(b)

\* The comparator (a, b) => (b.timestamp || 0) - (a.timestamp || 0)
Compare(a, b) == SortKey(b) - SortKey(a)

\* Array.prototype.sort is stable: x goes after every element that does not
\* compare greater than it.
RECURSIVE Insert(_, _)
Insert(sorted, x) ==
    IF sorted = <<>> THEN <<x>>
    ELSE IF Compare(Head(sorted), x) <= 0
         THEN <<Head(sorted)>> \o Insert(Tail(sorted), x)
         ELSE <<x>> \o sorted

RECURSIVE SortReports(_)
SortReports(s) ==
    IF s = <<>> THEN <<>>
    ELSE Insert(SortReports(SubSeq(s, 1, Len(s) - 1)), s[Len(s)])


\* ------------------------------------------------------------ seed samples
Sample(id, ts, title, description, type, location, photo, status) ==
    [id |-> Str(id),
     title |-> Str(title),
     description |-> Str(description),
     type |-> Str(type),
     location |-> Str(location),
     imageUrl |-> Str("https://images.unsplash.com/photo-" \o photo \o "?w=800&q=80"),
     status |-> Str(status),
     timestamp |-> Num(ts)]

\* sampleReports of seedDatabase (timestamps in units of 100000 ms).
SampleReports ==
    << Sample("1732611600000", 17326116, "Pothole on Main Street",
              "Large pothole causing traffic issues near the intersection with Oak Avenue. Needs immediate attention.",
              "infrastructure", "Main Street & Oak Avenue",
              "1581094794329-c8112a89af12", "in-progress"),
       Sample("1732698000000", 17326980, "Broken Street Light",
              "Street light has been out for a week, making the area unsafe at night.",
              "safety", "Park Avenue, Block 200",
              "1513002749550-c59d786b8e6c", "pending"),
       Sample("1732179600000", 17321796, "Illegal Dumping",
              "Construction debris dumped in the park area. Environmental hazard.",
              "environment", "Central Park, East Side",
              "1532996122724-e3c354a0b15b", "resolved"),
       Sample("1732352400000", 17323524, "Traffic Signal Malfunction",
              "Traffic light stuck on red in all directions causing congestion.",
              "traffic", "Highway 101 & 5th Street",
              "1449824913935-59a10b8d2000", "in-progress"),
       Sample("1732784400000", 17327844, "Overflowing Trash Bins",
              "Public trash bins have not been emptied in several days.",
              "public-services", "Downtown Shopping District",
              "1604187351574-c75ca79f5807", "pending") >>

\* ------------------------------------------------------------------ inputs
Body(title, description, type, location, imageUrl) ==
    [title |-> title, description |-> description, type |-> type,
     location |-> location, imageUrl |-> imageUrl]

BodyA == Body(Str("Pothole"), Str("Deep hole"), Str("infrastructure"), Str("Main St"), Undef)
BodyB == Body(Str("Lamp"), Str("Dark"), Str("lighting"), Str("Park Ave"), Str("https://img/1"))

\* The JSON bodies create requests are drawn from.
CreateBodies ==
    {BodyA, BodyB,
     [BodyA EXCEPT !.imageUrl = Str("")],
     [BodyA EXCEPT !.title = Undef],
     [BodyB EXCEPT !.description = Str("")],
     [BodyA EXCEPT !.type = Null],
     [BodyB EXCEPT !.location = Undef]}

\* The values of `status` in the JSON body of a status update.
StatusInputs == {Undef, Str(""), Str("done"), Str("pending"), Str("resolved")}

\* The ids requests name: every id a create can assign.
TargetIds == {NumToString(t) : t \in Times}

\* ------------------------------------------------------ the browser client
\* The reports the service holds when the page is loaded, and the id the
\* service gives the report the page submits.
AppIds == {SampleReports[1].id.s, SampleReports[2].id.s}

NewId == NumToString(Now0)

AppAllIds == AppIds \cup {NewId}

\* An entry of the `reports` state: what the page knows of one report.
Entry(id, status) == [id |-> id, status |-> status]

\* No handler call awaits the service in this slot.
NoCall == [kind |-> "idle", id |-> "", status |-> "", reports |-> <<>>]

\* The service's answer to api.getAllReports(): newest first.
Fetched(server) ==
    LET ordered == <<NewId, SampleReports[2].id.s, SampleReports[1].id.s>>
        present(id) == server[id] # "absent"
        entries == [i \in 1..3 |-> Entry(ordered[i], server[ordered[i]])]
    IN  SelectSeq(entries, LAMBDA e : present(e.id))

\* useState(...) of App, with checkAuth() and loadReports() of the mount
\* effects awaiting their answers; `server` is what the service holds.
AppInit ==
    [view |-> "user",
     reports |-> <<>>,
     loading |-> TRUE,
     error |-> FALSE,
     isAuthenticated |-> FALSE,
     authChecking |-> TRUE,
     calls |-> [c \in Slots |-> NoCall],
     server |-> [id \in AppAllIds |->
                   IF id = NewId THEN "absent"
                   ELSE IF id = SampleReports[1].id.s THEN "in-progress"
                   ELSE "pending"]]

\* ------------------------------------------------------------------- Init
\* A slot: the request's route, the await it waits on, and its locals.
IdleReq ==
    [op |-> "", pc |-> "idle", hdr |-> Undef, id |-> "", body |-> Undef,
     user |-> Undef, rep |-> Undef, kvops |-> 0, extops |-> 0]

\* A response: c.json({ success, error, report, reports, ... }, code) of request
\* q, with the request's locals: kvops counts the store calls the request made,
\* extops its calls of the identity provider and the blob store, `was` is the
\* record a status update read, and payload holds what other routes put in the
\* body.
Json(q, success, error, code, report, reports) ==
    [op |-> q.op, code |-> code, success |-> success, error |-> error,
     hdr |-> q.hdr, id |-> q.id, body |-> q.body,
     user |-> q.user, report |-> report, reports |-> reports, payload |-> Undef,
     was |-> IF q.op = "patch" THEN q.rep ELSE Undef,
     kvops |-> q.kvops, extops |-> q.extops]

NoResp == Json(IdleReq, FALSE, Undef, 0, Undef, <<>>)

Init ==
    /\ kv = <<>>
    /\ now = Now0
    /\ sessions = SessionTokens
    /\ req = [r \in Slots |-> IdleReq]
    /\ seed = [pc |-> "scan", next |-> 1]
    /\ resp = NoResp
    /\ app = AppInit

\* A request that has to wait arrives in the lowest free slot.
Free(r) ==
    /\ req[r].pc = "idle"
    /\ \A q \in Slots : q < r => req[q].pc # "idle"

\* ---------------------------------------------------------------- handlers
\* `if (!report)` after `await kv.get(...)`, negated: the report was found.
Found(store, id) == Truthy(KvGet(store, Key(id)))

\* Fault: the not-found answer says success: true.
GetAnswerNotFoundOk(store, id) ==
    LET q == [IdleReq EXCEPT !.op = "get", !.id = id, !.kvops = 1]
        report == KvGet(store, Key(id))
    IN IF ~Found(store, id) THEN Json(q, TRUE, Str("Report not found"), 404, Undef, <<>>)
       ELSE Json(q, TRUE, Undef, 200, report, <<>>)

\* GET /reports/:id, given what kv.get finds.
GetAnswer(store, id) ==
    LET q == [IdleReq EXCEPT !.op = "get", !.id = id, !.kvops = 1]
        report == KvGet(store, Key(id))
    IN IF ~Found(store, id) THEN Json(q, FALSE, Str("Report not found"), 404, Undef, <<>>)
       ELSE Json(q, TRUE, Undef, 200, report, <<>>)

\* GET /reports, given the order the prefix scan returns.
ListAnswer(store, backwards) ==
    LET q == [IdleReq EXCEPT !.op = "list", !.kvops = 1]
        reports == GetByPrefix(store, backwards)
    IN IF Len(reports) = 0 THEN Json(q, TRUE, Undef, 200, Undef, <<>>)
       ELSE Json(q, TRUE, Undef, 200, Undef, SortReports([i \in 1..Len(reports) |-> Unwrap(reports[i])]))

\* ----------------------------------------------------------------- actions
\* The wall clock advances.
Tick ==
    /\ now < MaxNow
    /\ now' = now + 1
    /\ resp' = NoResp
    /\ UNCHANGED <<kv, sessions, req, seed, app>>

\* Fault: seedDatabase writes the samples whatever the scan found.
SeedScanUnchecked(backwards) ==
    /\ seed.pc = "scan"
    /\ seed' = [pc |-> "write", next |-> 1]
    /\ resp' = NoResp
    /\ UNCHANGED <<kv, now, sessions, req, app>>

\* seedDatabase, up to the end of `await kv.getByPrefix('report:')`.
SeedScan(backwards) ==
    /\ seed.pc = "scan"
    /\ LET existingReports == GetByPrefix(kv, backwards)
       IN seed' = IF Len(existingReports) = 0
                  THEN [pc |-> "write", next |-> 1]
                  ELSE [pc |-> "done", next |-> 1]
    /\ resp' = NoResp
    /\ UNCHANGED <<kv, now, sessions, req, app>>

\* seedDatabase: one kv.set of sampleReports.map, in the order map issues them.
SeedWrite ==
    /\ seed.pc = "write"
    /\ LET report == SampleReports[seed.next]
       IN kv' = KvSet(kv, Key(report.id.s), report)
    /\ seed' = IF seed.next = Len(SampleReports)
               THEN [pc |-> "done", next |-> 1]
               ELSE [seed EXCEPT !.next = @ + 1]
    /\ resp' = NoResp
    /\ UNCHANGED <<now, sessions, req, app>>

\* POST /reports, up to the call of kv.set: validation, then the report is built
\* from two readings of the clock (the clock may advance between them).
CreateReport(r, body, t2) ==
    /\ Free(r)
    /\ LET q == [IdleReq EXCEPT !.op = "create", !.body = body]
       IN IF MissingRequired(body)
          THEN /\ t2 = now
               /\ resp' = Json(q, FALSE, Str("Missing required fields"), 400, Undef, <<>>)
               /\ UNCHANGED <<req, now>>
          ELSE /\ t2 \in {now, now + 1} \cap Times
               /\ req' = [req EXCEPT ![r] =
                            [q EXCEPT !.pc = "kvset", !.rep = NewReport(body, now, t2)]]
               /\ now' = t2
               /\ resp' = NoResp
    /\ UNCHANGED <<kv, sessions, seed, app>>

\* Fault: the record is stored under the key of its timestamp.
CreateSetKeyedByTimestamp(r) ==
    /\ req[r].op = "create" /\ req[r].pc = "kvset"
    /\ kv' = KvSet(kv, Key(NumToString(req[r].rep.timestamp.n)), req[r].rep)
    /\ resp' = Json([req[r] EXCEPT !.kvops = @ + 1], TRUE, Undef, 200, req[r].rep, <<>>)
    /\ req' = [req EXCEPT ![r] = IdleReq]
    /\ UNCHANGED <<now, sessions, seed, app>>

\* POST /reports: `await kv.set(...)`, then the answer.
CreateSet(r) ==
    /\ req[r].op = "create" /\ req[r].pc = "kvset"
    /\ kv' = KvSet(kv, Key(req[r].rep.id.s), req[r].rep)
    /\ resp' = Json([req[r] EXCEPT !.kvops = @ + 1], TRUE, Undef, 200, req[r].rep, <<>>)
    /\ req' = [req EXCEPT ![r] = IdleReq]
    /\ UNCHANGED <<now, sessions, seed, app>>

\* GET /reports/:id
GetReport(id) ==
    /\ resp' = GetAnswer(kv, id)
    /\ UNCHANGED <<kv, now, sessions, req, seed, app>>

\* GET /reports
ListReports(backwards) ==
    /\ resp' = ListAnswer(kv, backwards)
    /\ UNCHANGED <<kv, now, sessions, req, seed, app>>

\* PATCH /reports/:id/status and DELETE /reports/:id arrive: requireAdmin up to
\* its call of supabase.auth.getUser.
MutateStart(r, op, h) ==
    /\ Free(r)
    /\ LET q == [IdleReq EXCEPT !.op = op, !.hdr = h]
           accessToken == BearerToken(h)
       IN IF ~Guarded(op)
          THEN /\ req' = [req EXCEPT ![r] = [q EXCEPT !.pc = "handler"]]
               /\ resp' = NoResp
          ELSE IF GuardRejects(accessToken)
          THEN /\ resp' = Json(q, FALSE, Str("Unauthorized - Admin access required"),
                               401, Undef, <<>>)
               /\ UNCHANGED req
          ELSE /\ req' = [req EXCEPT ![r] = [q EXCEPT !.pc = "getUser"]]
               /\ resp' = NoResp
    /\ UNCHANGED <<kv, now, sessions, seed, app>>

\* Fault: the guard also demands the admin role of the resolved user.
RequireAdminRoleChecked(r) ==
    /\ req[r].pc = "getUser"
    /\ LET res == GetUser(BearerToken(req[r].hdr))
       IN IF res.error \/ ~Truthy(res.user)
          THEN /\ resp' = Json(req[r], FALSE, Str("Invalid authentication token"),
                               401, Undef, <<>>)
               /\ req' = [req EXCEPT ![r] = IdleReq]
          ELSE IF res.user.role # Str("admin")
          THEN /\ resp' = Json(req[r], FALSE, Str("Unauthorized - Admin access required"),
                               403, Undef, <<>>)
               /\ req' = [req EXCEPT ![r] = IdleReq]
          ELSE /\ req' = [req EXCEPT ![r] = [@ EXCEPT !.pc = "handler", !.user = res.user]]
               /\ resp' = NoResp
    /\ UNCHANGED <<kv, now, sessions, seed, app>>

\* requireAdmin: getUser has answered; c.set('user', user) and next().
RequireAdmin(r) ==
    /\ req[r].pc = "getUser"
    /\ LET res == GetUser(BearerToken(req[r].hdr))
       IN IF res.error \/ ~Truthy(res.user)
          THEN /\ resp' = Json(req[r], FALSE, Str("Invalid authentication token"),
                               401, Undef, <<>>)
               /\ req' = [req EXCEPT ![r] = IdleReq]
          ELSE /\ req' = [req EXCEPT ![r] = [@ EXCEPT !.pc = "handler", !.user = res.user]]
               /\ resp' = NoResp
    /\ UNCHANGED <<kv, now, sessions, seed, app>>

\* PATCH: the body is read and `status` validated.
PatchValidate(r, id, status) ==
    /\ req[r].op = "patch" /\ req[r].pc = "handler"
    /\ LET q == [req[r] EXCEPT !.id = id, !.body = [status |-> status]]
       IN IF InvalidStatus(status)
          THEN /\ resp' = Json(q, FALSE, Str("Invalid status"), 400, Undef, <<>>)
               /\ req' = [req EXCEPT ![r] = IdleReq]
          ELSE /\ req' = [req EXCEPT ![r] = [q EXCEPT !.pc = "kvget"]]
               /\ resp' = NoResp
    /\ UNCHANGED <<kv, now, sessions, seed, app>>

\* Fault: a status update of a missing report stores a stub before answering 404.
PatchGetUpserts(r) ==
    /\ req[r].op = "patch" /\ req[r].pc = "kvget"
    /\ LET report == KvGet(kv, Key(req[r].id))
           q == [req[r] EXCEPT !.kvops = @ + 1]
       IN IF ~Found(kv, req[r].id)
          THEN /\ resp' = Json(q, FALSE, Str("Report not found"), 404, Undef, <<>>)
               /\ req' = [req EXCEPT ![r] = IdleReq]
               /\ kv' = KvSet(kv, Key(req[r].id),
                              [id |-> Str(req[r].id), status |-> req[r].body.status])
          ELSE /\ req' = [req EXCEPT ![r] = [q EXCEPT !.pc = "kvset", !.rep = report]]
               /\ resp' = NoResp
               /\ kv' = kv
    /\ UNCHANGED <<now, sessions, seed, app>>

\* PATCH: `await kv.get(...)` and the existence check.
PatchGet(r) ==
    /\ req[r].op = "patch" /\ req[r].pc = "kvget"
    /\ LET report == KvGet(kv, Key(req[r].id))
           q == [req[r] EXCEPT !.kvops = @ + 1]
       IN IF ~Found(kv, req[r].id)
          THEN /\ resp' = Json(q, FALSE, Str("Report not found"), 404, Undef, <<>>)
               /\ req' = [req EXCEPT ![r] = IdleReq]
          ELSE /\ req' = [req EXCEPT ![r] = [q EXCEPT !.pc = "kvset", !.rep = report]]
               /\ resp' = NoResp
    /\ UNCHANGED <<kv, now, sessions, seed, app>>

\* PATCH: `await kv.set(..., updatedReport)`, then the answer.
PatchSet(r) ==
    /\ req[r].op = "patch" /\ req[r].pc = "kvset"
    /\ LET updatedReport == WithStatus(req[r].rep, req[r].body.status)
       IN /\ kv' = KvSet(kv, Key(req[r].id), updatedReport)
          /\ resp' = Json([req[r] EXCEPT !.kvops = @ + 1], TRUE, Undef, 200, updatedReport, <<>>)
    /\ req' = [req EXCEPT ![r] = IdleReq]
    /\ UNCHANGED <<now, sessions, seed, app>>

\* Fault: the delete handler calls kv.del without checking that the report exists.
DeleteGetNoCheck(r, id) ==
    /\ req[r].op = "delete" /\ req[r].pc = "handler"
    /\ LET report == KvGet(kv, Key(id))
           q == [req[r] EXCEPT !.id = id, !.kvops = @ + 1]
       IN /\ req' = [req EXCEPT ![r] = [q EXCEPT !.pc = "kvdel", !.rep = report]]
          /\ resp' = NoResp
    /\ UNCHANGED <<kv, now, sessions, seed, app>>

\* DELETE: `await kv.get(...)` and the existence check.
DeleteGet(r, id) ==
    /\ req[r].op = "delete" /\ req[r].pc = "handler"
    /\ LET report == KvGet(kv, Key(id))
           q == [req[r] EXCEPT !.id = id, !.kvops = @ + 1]
       IN IF ~Found(kv, id)
          THEN /\ resp' = Json(q, FALSE, Str("Report not found"), 404, Undef, <<>>)
               /\ req' = [req EXCEPT ![r] = IdleReq]
          ELSE /\ req' = [req EXCEPT ![r] = [q EXCEPT !.pc = "kvdel", !.rep = report]]
               /\ resp' = NoResp
    /\ UNCHANGED <<kv, now, sessions, seed, app>>

\* Fault: the delete handler answers without calling kv.del.
DeleteDelNoDel(r) ==
    /\ req[r].op = "delete" /\ req[r].pc = "kvdel"
    /\ resp' = Json(req[r], TRUE, Undef, 200, Undef, <<>>)
    /\ req' = [req EXCEPT ![r] = IdleReq]
    /\ UNCHANGED <<kv, now, sessions, seed, app>>

\* DELETE: `await kv.del(...)`, then the answer.
DeleteDel(r) ==
    /\ req[r].op = "delete" /\ req[r].pc = "kvdel"
    /\ kv' = KvDel(kv, Key(req[r].id))
    /\ resp' = Json([req[r] EXCEPT !.kvops = @ + 1], TRUE, Undef, 200, Undef, <<>>)
    /\ req' = [req EXCEPT ![r] = IdleReq]
    /\ UNCHANGED <<now, sessions, seed, app>>

\* Clients send the requests that create or change reports once the startup
\* seeding has finished.
Serving == seed.pc = "done"

\* One request at a time, with every kind of input.
Next ==
    \/ Tick
    \/ \E backwards \in BOOLEAN : SeedScan(backwards)
    \/ SeedWrite
    \/ \E id \in TargetIds : GetReport(id)
    \/ \E backwards \in BOOLEAN : ListReports(backwards)
    \/ \E body \in CreateBodies, t2 \in Times : Serving /\ CreateReport(1, body, t2)
    \/ \E op \in {"patch", "delete"}, h \in Headers : Serving /\ MutateStart(1, op, h)
    \/ \E r \in Slots : CreateSet(r)
    \/ \E r \in Slots : RequireAdmin(r)
    \/ \E r \in Slots, id \in TargetIds, status \in StatusInputs : PatchValidate(r, id, status)
    \/ \E r \in Slots : PatchGet(r)
    \/ \E r \in Slots : PatchSet(r)
    \/ \E r \in Slots, id \in TargetIds : DeleteGet(r, id)
    \/ \E r \in Slots : DeleteDel(r)

Spec == Init /\ [][Next]_vars

\* The admin's requests on the first report and the public's creates, running
\* concurrently while seedDatabase has not yet been scheduled.
RaceBodies == {BodyA}
RaceStatuses == {Str("in-progress"), Str("resolved")}
RaceIds == {NumToString(Now0)}
AdminHeader == Header(<<"Bearer", AdminToken>>)

NextRace ==
    \/ Tick
    \/ \E r \in Slots, body \in RaceBodies, t2 \in Times : CreateReport(r, body, t2)
    \/ \E r \in Slots, op \in {"patch", "delete"} : MutateStart(r, op, AdminHeader)
    \/ \E r \in Slots : CreateSet(r)
    \/ \E r \in Slots : RequireAdmin(r)
    \/ \E r \in Slots, id \in RaceIds, status \in RaceStatuses : PatchValidate(r, id, status)
    \/ \E r \in Slots : PatchGet(r)
    \/ \E r \in Slots : PatchSet(r)
    \/ \E r \in Slots, id \in RaceIds : DeleteGet(r, id)
    \/ \E r \in Slots : DeleteDel(r)

SpecRace == Init /\ [][NextRace]_vars


\* ------------------------------------------------- substrate failures
\* The message of the error a failing store call throws.
KvErrorMessage == "store failure"

\* A store call of request q throws: the catch block of its handler answers.
Caught(q, error) ==
    Json([q EXCEPT !.kvops = @ + 1], FALSE, Str(error), 500, Undef, <<>>)

\* GET /reports/:id: kv.get throws.
GetReportFails(id) ==
    /\ resp' = Caught([IdleReq EXCEPT !.op = "get", !.id = id], "Failed to fetch report")
    /\ UNCHANGED <<kv, now, sessions, req, seed, app>>

\* GET /reports: kv.getByPrefix throws.
ListReportsFails ==
    /\ resp' = Caught([IdleReq EXCEPT !.op = "list"],
                      "Failed to fetch reports: " \o KvErrorMessage)
    /\ UNCHANGED <<kv, now, sessions, req, seed, app>>

\* POST /reports: kv.set throws.
CreateSetFails(r) ==
    /\ req[r].op = "create" /\ req[r].pc = "kvset"
    /\ resp' = Caught(req[r], "Failed to create report")
    /\ req' = [req EXCEPT ![r] = IdleReq]
    /\ UNCHANGED <<kv, now, sessions, seed, app>>

\* PATCH: kv.get throws.
PatchGetFails(r) ==
    /\ req[r].op = "patch" /\ req[r].pc = "kvget"
    /\ resp' = Caught(req[r], "Failed to update report status")
    /\ req' = [req EXCEPT ![r] = IdleReq]
    /\ UNCHANGED <<kv, now, sessions, seed, app>>

\* Fault: the handler retries the write before it answers 500.
PatchSetFailsRetried(r) ==
    /\ req[r].op = "patch" /\ req[r].pc = "kvset"
    /\ kv' = KvSet(kv, Key(req[r].id), WithStatus(req[r].rep, req[r].body.status))
    /\ resp' = Caught([req[r] EXCEPT !.kvops = @ + 1], "Failed to update report status")
    /\ req' = [req EXCEPT ![r] = IdleReq]
    /\ UNCHANGED <<now, sessions, seed, app>>

\* PATCH: kv.set throws after kv.get succeeded.
PatchSetFails(r) ==
    /\ req[r].op = "patch" /\ req[r].pc = "kvset"
    /\ resp' = Caught(req[r], "Failed to update report status")
    /\ req' = [req EXCEPT ![r] = IdleReq]
    /\ UNCHANGED <<kv, now, sessions, seed, app>>

\* DELETE: kv.get throws.
DeleteGetFails(r, id) ==
    /\ req[r].op = "delete" /\ req[r].pc = "handler"
    /\ resp' = Caught([req[r] EXCEPT !.id = id], "Failed to delete report")
    /\ req' = [req EXCEPT ![r] = IdleReq]
    /\ UNCHANGED <<kv, now, sessions, seed, app>>

\* DELETE: kv.del throws.
DeleteDelFails(r) ==
    /\ req[r].op = "delete" /\ req[r].pc = "kvdel"
    /\ resp' = Caught(req[r], "Failed to delete report")
    /\ req' = [req EXCEPT ![r] = IdleReq]
    /\ UNCHANGED <<kv, now, sessions, seed, app>>

\* ------------------------------------------------------------------ seeding
\* The module is loaded again (a cold start) while no request is being handled:
\* `seedDatabase();` runs again.
Reseed ==
    /\ seed.pc = "done"
    /\ \A r \in Slots : req[r].pc = "idle"
    /\ seed' = [pc |-> "scan", next |-> 1]
    /\ resp' = NoResp
    /\ UNCHANGED <<kv, now, sessions, req, app>>

\* -------------------------------------------------------------------- auth
\* The accounts of the identity provider, with the session it opens for each.
AdminAccount ==
    [email |-> "sahor@gmail.com", password |-> "ludwig123",
     user |-> AdminUser, token |-> AdminToken]
OtherAccount ==
    [email |-> "citizen@example.com", password |-> "citizen-pass",
     user |-> OtherUser, token |-> OtherToken]
Accounts == {AdminAccount, OtherAccount}

\* authClient.auth.signInWithPassword({ email, password }): { data, error }
SignInWithPassword(email, password) ==
    IF \E a \in Accounts : Str(a.email) = email /\ Str(a.password) = password
    THEN LET a == CHOOSE a \in Accounts : Str(a.email) = email /\ Str(a.password) = password
         IN [error |-> FALSE, user |-> a.user,
             session |-> [access_token |-> Str(a.token),
                          refresh_token |-> Str("refresh-" \o a.token)]]
    ELSE [error |-> TRUE, user |-> Null, session |-> Null]

\* The body of a request that is not JSON: c.req.json() throws.
Malformed == [t |-> "malformed"]

LoginBodies ==
    {Malformed}
    \cup {[email |-> e, password |-> pw] :
            e \in {Undef, Str(""), Str(AdminAccount.email), Str(OtherAccount.email)},
            pw \in {Undef, Str(AdminAccount.password), Str(OtherAccount.password),
                    Str("wrong")}}

\* The user object login and verify put in their answer.
UserView(user) == [email |-> Str(user.email), role |-> user.role]

\* Fault: login skips the role check.
LoginSignInAnyRole(r) ==
    /\ req[r].op = "login" /\ req[r].pc = "signIn"
    /\ LET res == SignInWithPassword(req[r].body.email, req[r].body.password)
           q == [req[r] EXCEPT !.extops = @ + 1]
       IN /\ resp' = IF res.error
                     THEN Json(q, FALSE, Str("Invalid email or password"), 401, Undef, <<>>)
                     ELSE [Json(q, TRUE, Undef, 200, Undef, <<>>) EXCEPT
                              !.payload = [user |-> UserView(res.user),
                                           session |-> res.session]]
          /\ sessions' = IF res.error THEN sessions
                         ELSE sessions \cup {res.session.access_token.s}
    /\ req' = [req EXCEPT ![r] = IdleReq]
    /\ UNCHANGED <<kv, now, seed, app>>

\* POST /auth/login, up to the call of signInWithPassword.
Login(r, body) ==
    /\ Free(r)
    /\ LET q == [IdleReq EXCEPT !.op = "login", !.body = body]
       IN IF body = Malformed
          THEN /\ resp' = Json(q, FALSE, Str("Login failed"), 500, Undef, <<>>)
               /\ UNCHANGED req
          ELSE IF ~Truthy(body.email) \/ ~Truthy(body.password)
          THEN /\ resp' = Json(q, FALSE, Str("Email and password are required"),
                               400, Undef, <<>>)
               /\ UNCHANGED req
          ELSE /\ req' = [req EXCEPT ![r] = [q EXCEPT !.pc = "signIn"]]
               /\ resp' = NoResp
    /\ UNCHANGED <<kv, now, sessions, seed, app>>

\* POST /auth/login: signInWithPassword has answered; the role check.
LoginSignIn(r) ==
    /\ req[r].op = "login" /\ req[r].pc = "signIn"
    /\ LET res == SignInWithPassword(req[r].body.email, req[r].body.password)
           q == [req[r] EXCEPT !.extops = @ + 1]
       IN /\ resp' = IF res.error
                     THEN Json(q, FALSE, Str("Invalid email or password"), 401, Undef, <<>>)
                     ELSE IF res.user.role # Str("admin")
                     THEN Json(q, FALSE, Str("Access denied - Admin privileges required"),
                               403, Undef, <<>>)
                     ELSE [Json(q, TRUE, Undef, 200, Undef, <<>>) EXCEPT
                              !.payload = [user |-> UserView(res.user),
                                           session |-> res.session]]
          /\ sessions' = IF res.error THEN sessions
                         ELSE sessions \cup {res.session.access_token.s}
    /\ req' = [req EXCEPT ![r] = IdleReq]
    /\ UNCHANGED <<kv, now, seed, app>>

\* GET /auth/verify, up to the call of supabase.auth.getUser.
Verify(r, h) ==
    /\ Free(r)
    /\ LET q == [IdleReq EXCEPT !.op = "verify", !.hdr = h]
       IN IF ~Truthy(BearerToken(h))
          THEN /\ resp' = Json(q, FALSE, Str("No token provided"), 401, Undef, <<>>)
               /\ UNCHANGED req
          ELSE /\ req' = [req EXCEPT ![r] = [q EXCEPT !.pc = "getUser"]]
               /\ resp' = NoResp
    /\ UNCHANGED <<kv, now, sessions, seed, app>>

\* GET /auth/verify: getUser has answered.
VerifyUser(r) ==
    /\ req[r].op = "verify" /\ req[r].pc = "getUser"
    /\ LET res == GetUser(BearerToken(req[r].hdr))
           q == [req[r] EXCEPT !.extops = @ + 1]
       IN resp' = IF res.error \/ ~Truthy(res.user)
                  THEN Json(q, FALSE, Str("Invalid token"), 401, Undef, <<>>)
                  ELSE [Json([q EXCEPT !.user = res.user], TRUE, Undef, 200, Undef, <<>>)
                           EXCEPT !.payload = [user |-> UserView(res.user)]]
    /\ req' = [req EXCEPT ![r] = IdleReq]
    /\ UNCHANGED <<kv, now, sessions, seed, app>>

\* POST /auth/logout, up to the call of signOut.
Logout(r, h) ==
    /\ Free(r)
    /\ LET q == [IdleReq EXCEPT !.op = "logout", !.hdr = h]
       IN IF ~Truthy(BearerToken(h))
          THEN /\ resp' = Json(q, TRUE, Undef, 200, Undef, <<>>)
               /\ UNCHANGED req
          ELSE /\ req' = [req EXCEPT ![r] = [q EXCEPT !.pc = "signOut"]]
               /\ resp' = NoResp
    /\ UNCHANGED <<kv, now, sessions, seed, app>>

\* POST /auth/logout: signOut of the client the handler has just created, which
\* holds no session: the identity provider closes none.
LogoutSignOut(r) ==
    /\ req[r].op = "logout" /\ req[r].pc = "signOut"
    /\ resp' = Json([req[r] EXCEPT !.extops = @ + 1], TRUE, Undef, 200, Undef, <<>>)
    /\ req' = [req EXCEPT ![r] = IdleReq]
    /\ UNCHANGED <<kv, now, sessions, seed, app>>

\* ------------------------------------------------------------------ upload
\* `file.size > 5242880`
MaxFileSize == 5242880

AllowedTypes == {"image/jpeg", "image/jpg", "image/png", "image/webp"}

File(type, size) == [t |-> "file", name |-> "photo", type |-> type, size |-> size]

Files ==
    {Undef}
    \cup {File(type, size) :
            type \in AllowedTypes \cup {"image/gif"},
            size \in {1, MaxFileSize, MaxFileSize + 1}}

\* Fault: the size test rejects a file of exactly the limit.
TooLargeAtLimit(file) == file.size >= MaxFileSize

\* `file.size > 5242880`
TooLarge(file) == file.size > MaxFileSize

\* POST /upload, up to the call of storage.upload.
Upload(r, file) ==
    /\ Free(r)
    /\ LET q == [IdleReq EXCEPT !.op = "upload", !.body = file]
       IN IF ~Truthy(file)
          THEN /\ resp' = Json(q, FALSE, Str("No file provided"), 400, Undef, <<>>)
               /\ UNCHANGED req
          ELSE IF file.type \notin AllowedTypes
          THEN /\ resp' = Json(q, FALSE,
                               Str("Invalid file type. Only JPEG, PNG, and WebP are allowed."),
                               400, Undef, <<>>)
               /\ UNCHANGED req
          ELSE IF TooLarge(file)
          THEN /\ resp' = Json(q, FALSE, Str("File size exceeds 5MB limit"), 400, Undef, <<>>)
               /\ UNCHANGED req
          ELSE /\ req' = [req EXCEPT ![r] =
                            [q EXCEPT !.pc = "upload",
                                      !.id = NumToString(now) \o "-" \o file.name]]
               /\ resp' = NoResp
    /\ UNCHANGED <<kv, now, sessions, seed, app>>

\* POST /upload: storage.upload has answered, with or without uploadError.
UploadStore(r, uploadError) ==
    /\ req[r].op = "upload" /\ req[r].pc = "upload"
    /\ LET q == [req[r] EXCEPT !.extops = @ + 1]
       IN IF uploadError
          THEN /\ resp' = Json(q, FALSE, Str("Failed to upload file"), 500, Undef, <<>>)
               /\ req' = [req EXCEPT ![r] = IdleReq]
          ELSE /\ req' = [req EXCEPT ![r] = [q EXCEPT !.pc = "sign"]]
               /\ resp' = NoResp
    /\ UNCHANGED <<kv, now, sessions, seed, app>>

\* POST /upload: createSignedUrl has answered, with or without signedUrlError.
UploadSign(r, signedUrlError) ==
    /\ req[r].op = "upload" /\ req[r].pc = "sign"
    /\ LET q == [req[r] EXCEPT !.extops = @ + 1]
       IN resp' = IF signedUrlError
                  THEN Json(q, FALSE, Str("Failed to create signed URL"), 500, Undef, <<>>)
                  ELSE [Json(q, TRUE, Undef, 200, Undef, <<>>) EXCEPT
                           !.payload = [imageUrl |-> Str("signed:" \o q.id)]]
    /\ req' = [req EXCEPT ![r] = IdleReq]
    /\ UNCHANGED <<kv, now, sessions, seed, app>>

\* ------------------------------------------------------------------ health
\* Fault: the health check answers 200 with a count of 0 when the store throws.
HealthFailsSoftly ==
    /\ resp' = [Json([IdleReq EXCEPT !.op = "health", !.kvops = 1], TRUE, Undef, 200,
                     Undef, <<>>)
                  EXCEPT !.payload =
                     [status |-> "healthy",
                      services |-> [database |-> "unavailable", storage |-> "ready",
                                    auth |-> "ready", reports_count |-> 0]]]
    /\ UNCHANGED <<kv, now, sessions, req, seed, app>>

\* GET /health: the prefix scan and listBuckets answer.
Health(bucketExists) ==
    /\ LET reports == GetByPrefix(kv, FALSE)
       IN resp' = [Json([IdleReq EXCEPT !.op = "health", !.kvops = 1], TRUE, Undef, 200,
                        Undef, <<>>)
                     EXCEPT !.payload =
                        [status |-> "healthy",
                         services |->
                            [database |-> "connected",
                             storage |-> IF bucketExists THEN "ready" ELSE "bucket missing",
                             auth |-> "ready",
                             reports_count |-> Len(reports)]]]
    /\ UNCHANGED <<kv, now, sessions, req, seed, app>>

\* GET /health: kv.getByPrefix throws.
HealthFails ==
    /\ resp' = [Caught([IdleReq EXCEPT !.op = "health"], KvErrorMessage)
                  EXCEPT !.payload = [status |-> "unhealthy"]]
    /\ UNCHANGED <<kv, now, sessions, req, seed, app>>

\* ------------------------------------------------------- the whole service
\* Every route, one request at a time, with store calls that may fail.
SvcBodies == {BodyA, [BodyA EXCEPT !.title = Undef]}
SvcIds == {NumToString(Now0)}
SvcStatuses == {Undef, Str("pending"), Str("in-progress"), Str("resolved")}
SvcHeaders == {Undef, AdminHeader, Header(<<"Bearer", BadToken>>)}

NextSvc ==
    \/ Tick
    \/ \E backwards \in BOOLEAN : SeedScan(backwards)
    \/ SeedWrite
    \/ Reseed
    \/ \E id \in SvcIds : GetReport(id)
    \/ \E id \in SvcIds : GetReportFails(id)
    \/ ListReports(FALSE)
    \/ ListReportsFails
    \/ \E body \in SvcBodies, t2 \in Times : Serving /\ CreateReport(1, body, t2)
    \/ CreateSet(1)
    \/ CreateSetFails(1)
    \/ \E op \in {"patch", "delete"}, h \in SvcHeaders : Serving /\ MutateStart(1, op, h)
    \/ RequireAdmin(1)
    \/ \E id \in SvcIds, status \in SvcStatuses : PatchValidate(1, id, status)
    \/ PatchGet(1)
    \/ PatchGetFails(1)
    \/ PatchSet(1)
    \/ PatchSetFails(1)
    \/ \E id \in SvcIds : DeleteGet(1, id)
    \/ \E id \in SvcIds : DeleteGetFails(1, id)
    \/ DeleteDel(1)
    \/ DeleteDelFails(1)
    \/ \E body \in LoginBodies : Login(1, body)
    \/ LoginSignIn(1)
    \/ \E h \in SvcHeaders : Verify(1, h)
    \/ VerifyUser(1)
    \/ \E h \in SvcHeaders : Logout(1, h)
    \/ LogoutSignOut(1)
    \/ \E file \in Files : Upload(1, file)
    \/ \E uploadError \in BOOLEAN : UploadStore(1, uploadError)
    \/ \E signedUrlError \in BOOLEAN : UploadSign(1, signedUrlError)
    \/ \E bucketExists \in BOOLEAN : Health(bucketExists)
    \/ HealthFails

SpecSvc == Init /\ [][NextSvc]_vars

\* ------------------------------------------- a store with foreign entries
\* The dashboard's `reports.filter(r => r && r.id && r.title)`.
IsValidReport(r) == Truthy(r) /\ Truthy(r.id) /\ Truthy(r.title)
ValidReports(reports) == SelectSeq(reports, IsValidReport)

\* Entries another writer of the key-value table may have left under the
\* `report:` prefix: two whole reports, and entries without an id, a title or a
\* timestamp.
ForeignEntries ==
    LET a == NewReport(BodyA, Now0, Now0)
        b == NewReport(BodyB, MaxNow, MaxNow)
    IN << a, b,
          [a EXCEPT !.id = Undef],
          [b EXCEPT !.id = Str("no-title"), !.title = Undef],
          [a EXCEPT !.id = Str("no-timestamp"), !.timestamp = Undef] >>

ForeignKey(i) ==
    IF ForeignEntries[i].id = Undef THEN Key("no-id") ELSE Key(ForeignEntries[i].id.s)

InitList ==
    /\ \E S \in SUBSET (1..Len(ForeignEntries)) :
          kv = [k \in {ForeignKey(i) : i \in S} |->
                  ForeignEntries[CHOOSE i \in S : ForeignKey(i) = k]]
    /\ now = Now0
    /\ sessions = SessionTokens
    /\ req = [r \in Slots |-> IdleReq]
    /\ seed = [pc |-> "done", next |-> 1]
    /\ resp = NoResp
    /\ app = AppInit

NextList ==
    \/ Tick
    \/ \E backwards \in BOOLEAN : ListReports(backwards)
    \/ \E id \in {"no-id", "no-title"} : GetReport(id)

SpecList == InitList /\ [][NextList]_vars

\* ----------------------------------------------------------- service start
\* `seedDatabase();` is called at module load and not awaited: the service
\* handles requests while the seeding is between its scan and its writes.
NextBoot ==
    \/ Tick
    \/ \E backwards \in BOOLEAN : SeedScan(backwards)
    \/ SeedWrite
    \/ \E t2 \in Times : CreateReport(1, BodyA, t2)
    \/ CreateSet(1)
    \/ \E backwards \in BOOLEAN : ListReports(backwards)

SpecBoot == Init /\ [][NextBoot]_vars

\* ------------------------------------------------------- the client's steps
\* What App returns for its state.
Render(a) ==
    IF a.loading /\ Len(a.reports) = 0 THEN "loader"
    ELSE IF a.error THEN "error"
    ELSE IF a.view = "admin" /\ ~a.authChecking /\ ~a.isAuthenticated THEN "login"
    ELSE IF a.view = "user" THEN "feed"
    ELSE "dashboard"

Server == <<kv, now, sessions, req, seed, resp>>

\* checkAuth(): api.verifyAuth() answers or throws.
CheckAuth(verified) ==
    /\ app.authChecking
    /\ app' = [app EXCEPT !.isAuthenticated = verified, !.authChecking = FALSE]
    /\ UNCHANGED Server

\* loadReports(): api.getAllReports() answers or throws.
LoadReports(loaded) ==
    /\ app.loading
    /\ app' = [app EXCEPT !.reports = IF loaded THEN Fetched(app.server) ELSE <<>>,
                          !.error = ~loaded,
                          !.loading = FALSE]
    /\ UNCHANGED Server

\* The Try Again button of the error page: loadReports() starts again.
TryAgain ==
    /\ Render(app) = "error"
    /\ app' = [app EXCEPT !.loading = TRUE, !.error = FALSE]
    /\ UNCHANGED Server

\* The User View and Admin View buttons of the header.
SetView(v) ==
    /\ Render(app) \in {"feed", "dashboard"}
    /\ app.view # v
    /\ app' = [app EXCEPT !.view = v]
    /\ UNCHANGED Server

\* handleLogin(): api.login() answered with the admin user.
HandleLogin ==
    /\ Render(app) = "login"
    /\ app' = [app EXCEPT !.isAuthenticated = TRUE, !.view = "admin"]
    /\ UNCHANGED Server

\* handleLogout(), from the Logout button of the header.
HandleLogout ==
    /\ Render(app) = "dashboard"
    /\ app.isAuthenticated
    /\ app' = [app EXCEPT !.isAuthenticated = FALSE, !.view = "user"]
    /\ UNCHANGED Server

AppFree(c) ==
    /\ app.calls[c].kind = "idle"
    /\ \A d \in Slots : d < c => app.calls[d].kind # "idle"

\* handleStatusUpdate(id, status) is called from the dashboard and awaits
\* api.updateReportStatus(); the closure holds the `reports` of this render.
HandleStatusUpdate(c, id, status) ==
    /\ Render(app) = "dashboard"
    /\ AppFree(c)
    /\ \E i \in 1..Len(app.reports) : app.reports[i].id = id
    /\ app' = [app EXCEPT !.calls[c] =
                 [kind |-> "status", id |-> id, status |-> status,
                  reports |-> app.reports]]
    /\ UNCHANGED Server

\* api.updateReportStatus() answers with the updated report, or throws.
StatusUpdated(c, updated) ==
    /\ app.calls[c].kind = "status"
    /\ LET call == app.calls[c]
           updatedReport == Entry(call.id, call.status)
       IN  app' = IF updated
                  THEN [app EXCEPT
                          !.server[call.id] = call.status,
                          !.reports = [i \in 1..Len(call.reports) |->
                                         IF call.reports[i].id = call.id
                                         THEN updatedReport
                                         ELSE call.reports[i]],
                          !.calls[c] = NoCall]
                  ELSE [app EXCEPT !.calls[c] = NoCall]
    /\ UNCHANGED Server

\* handleNewReport(report) is called from the form of the user view and awaits
\* api.createReport(); the closure holds the `reports` of this render.
HandleNewReport(c) ==
    /\ Render(app) = "feed"
    /\ AppFree(c)
    /\ app.server[NewId] = "absent"
    /\ \A d \in Slots : app.calls[d].kind # "new"
    /\ app' = [app EXCEPT !.calls[c] =
                 [kind |-> "new", id |-> NewId, status |-> "pending",
                  reports |-> app.reports]]
    /\ UNCHANGED Server

\* api.createReport() answers with the new report, or throws.
ReportCreated(c, created) ==
    /\ app.calls[c].kind = "new"
    /\ LET call == app.calls[c]
           newReport == Entry(call.id, call.status)
       IN  app' = IF created
                  THEN [app EXCEPT
                          !.server[call.id] = call.status,
                          !.reports = <<newReport>> \o call.reports,
                          !.calls[c] = NoCall]
                  ELSE [app EXCEPT !.calls[c] = NoCall]
    /\ UNCHANGED Server

AppStatuses == {"resolved"}

NextApp ==
    \/ \E verified \in BOOLEAN : CheckAuth(verified)
    \/ \E loaded \in BOOLEAN : LoadReports(loaded)
    \/ TryAgain
    \/ \E v \in {"user", "admin"} : SetView(v)
    \/ HandleLogin
    \/ HandleLogout
    \/ \E c \in Slots, id \in AppIds, status \in AppStatuses :
          HandleStatusUpdate(c, id, status)
    \/ \E c \in Slots, updated \in BOOLEAN : StatusUpdated(c, updated)
    \/ \E c \in Slots : HandleNewReport(c)
    \/ \E c \in Slots, created \in BOOLEAN : ReportCreated(c, created)

SpecApp == Init /\ [][NextApp]_vars

\* ---------------------------------------------------------------- properties
Mutating == {"patch", "delete"}

\* A header that carries no bearer token, or the anonymous key as its token.
NoBearer(h) == h = Undef \/ Len(h.parts) < 2 \/ h.parts[2] = AnonKey

\* A status value that is missing or outside the three statuses.
BadStatus(v) == v = Undef \/ v.t # "string" \/ v.s \notin {"pending", "in-progress", "resolved"}

\* A field that is missing or empty.
Blank(v) == v = Undef \/ v = Null \/ v = Str("")

LacksRequired(b) ==
    Blank(b.title) \/ Blank(b.description) \/ Blank(b.type) \/ Blank(b.location)

\* C1: a status update or a delete with no bearer token, or with the anonymous
\* key as token, is answered 401 on arrival (it never waits on a call), makes no
\* store call, and leaves the store as it was.
C1_AuthGate ==
    /\ [](\A r \in Slots : req[r].op \in Mutating => ~NoBearer(req[r].hdr))
    /\ [][(resp'.op \in Mutating /\ NoBearer(resp'.hdr))
            => (resp'.code = 401 /\ resp'.kvops = 0 /\ kv' = kv)]_vars

C1_Witness ==
    /\ resp.op = "patch" /\ resp.code = 401 /\ resp.hdr = Undef
    /\ \E k \in DOMAIN kv : kv[k].status = Str("pending")

\* C2: a status update or a delete succeeds only for a request whose token
\* resolves to an identity with the admin role.
C2_AdminOnly ==
    (resp.op \in Mutating /\ resp.code = 200) => resp.user.role = Str("admin")

C4_RoundTrip ==
    (resp.op = "create" /\ resp.code = 200) =>
        LET got == GetAnswer(kv, resp.report.id.s)
            sub == resp.body
        IN /\ got.code = 200
           /\ got.report.title = sub.title
           /\ got.report.description = sub.description
           /\ got.report.type = sub.type
           /\ got.report.location = sub.location
           /\ got.report.imageUrl = (IF Blank(sub.imageUrl) THEN Null ELSE sub.imageUrl)
           /\ got.report.status = Str("pending")
           /\ got.report.id = resp.report.id /\ got.report.id.t = "string"
           /\ got.report.timestamp = resp.report.timestamp
           /\ got.report.timestamp.t = "number"

C4_Witness ==
    /\ resp.op = "create" /\ resp.code = 200
    /\ resp.body.imageUrl = Str("https://img/1")
    /\ GetAnswer(kv, resp.report.id.s).report.imageUrl = Str("https://img/1")

\* C5: the list answers 200 with exactly the stored reports; when their
\* timestamps are pairwise distinct the sequence is strictly descending by
\* timestamp; for an empty store it is the empty sequence.
C5_ListOrdered ==
    resp.op = "list" =>
        LET out == resp.reports
            stored == {kv[k] : k \in DOMAIN kv}
        IN /\ resp.code = 200
           /\ Len(out) = Cardinality(DOMAIN kv)
           /\ {out[i] : i \in 1..Len(out)} = stored
           /\ (\A a, b \in stored : a # b => a.timestamp # b.timestamp)
                => \A i, j \in 1..Len(out) :
                      i < j => out[i].timestamp.n > out[j].timestamp.n
           /\ DOMAIN kv = {} => out = <<>>

C5_Witness ==
    /\ resp.op = "list" /\ Len(resp.reports) > Len(SampleReports)
    /\ \A i, j \in 1..Len(resp.reports) :
          i < j => resp.reports[i].timestamp.n > resp.reports[j].timestamp.n

Unedited(a, b) ==
    /\ a.title = b.title
    /\ a.description = b.description
    /\ a.location = b.location
    /\ a.type = b.type
    /\ a.imageUrl = b.imageUrl
    /\ a.timestamp = b.timestamp

\* C6 as stated: while a report stays stored, no request changes its title,
\* description, location, type, imageUrl or timestamp.
C6_Immutable ==
    [][\A k \in DOMAIN kv \cap DOMAIN kv' : Unedited(kv[k], kv'[k])]_vars

\* C6 amended: a status update writes back the record it read with nothing but
\* status replaced, and list, get and delete write nothing; while a report stays
\* stored, its other fields change only in the step in which a create that was
\* given the same id writes its own report over it, or in which a status update
\* that read the report before such a create writes back the fields it read.
C6_ImmutableButCollision ==
    [][\A k \in DOMAIN kv \cap DOMAIN kv' :
          \/ Unedited(kv[k], kv'[k])
          \/ /\ resp'.op = "create" /\ resp'.code = 200
             /\ Key(resp'.report.id.s) = k
             /\ kv'[k] = resp'.report
          \/ /\ resp'.op = "patch" /\ resp'.code = 200
             /\ Key(resp'.id) = k
             /\ \E r \in Slots :
                   /\ req[r].op = "patch" /\ req[r].pc = "kvset"
                   /\ req'[r].pc = "idle"
                   /\ Unedited(req[r].rep, kv'[k])
                   /\ ~Unedited(req[r].rep, kv[k])]_vars

C6_Witness ==
    /\ resp.op = "patch" /\ resp.code = 200
    /\ resp.body.status = Str("resolved")
    /\ kv[Key(resp.id)].status = Str("resolved")
    /\ kv[Key(resp.id)].timestamp.n < now
    /\ Unedited(kv[Key(resp.id)], NewReport(BodyA, Now0, Now0))

\* C7: every stored report has a non-empty id, title, description and location,
\* a type among the six report types and a status among the three statuses.
C7_ValidReports ==
    \A k \in DOMAIN kv :
        /\ ~Blank(kv[k].id) /\ ~Blank(kv[k].title)
        /\ ~Blank(kv[k].description) /\ ~Blank(kv[k].location)
        /\ kv[k].type.t = "string" /\ kv[k].type.s \in ReportTypes
        /\ kv[k].status.t = "string" /\ kv[k].status.s \in Statuses

C9_ConflictFree ==
    [][(resp'.op = "create" /\ resp'.code = 200)
         => /\ Key(resp'.report.id.s) \notin DOMAIN kv
            /\ Cardinality(DOMAIN kv') = Cardinality(DOMAIN kv) + 1]_vars

\* C9 amended: a create takes as id the decimal string of the clock reading it
\* makes on arrival, and distinct readings give distinct ids; its write stores
\* its report under that id and changes no other key, so it adds a new key
\* exactly when no stored report has that id, and otherwise (a create that read
\* the same clock value before it) replaces that report.
C9_ConflictFreeByClock ==
    /\ \A t, u \in Times : t # u => NumToString(t) # NumToString(u)
    /\ [][/\ \A r \in Slots :
                (req[r].pc = "idle" /\ req'[r].op = "create")
                    => req'[r].rep.id = Str(NumToString(now))
          /\ (resp'.op = "create" /\ resp'.code = 200)
                => LET k == Key(resp'.report.id.s)
                   IN /\ DOMAIN kv' = DOMAIN kv \cup {k}
                      /\ kv'[k] = resp'.report
                      /\ \A j \in DOMAIN kv \ {k} : kv'[j] = kv[j]
                      /\ k \notin DOMAIN kv
                            => Cardinality(DOMAIN kv') = Cardinality(DOMAIN kv) + 1
                      /\ k \in DOMAIN kv => kv[k].id = resp'.report.id]_vars

C9_Witness ==
    /\ resp.op = "create" /\ resp.code = 200
    /\ Cardinality(DOMAIN kv) = 2
    /\ \E r \in Slots : req[r].op = "create" /\ req[r].rep.id = resp.report.id

\* C10: when a delete has answered 200 the report is gone: a get of its id
\* answers 404, no list contains it, a further delete finds nothing; the delete
\* removed exactly one key; and a delete that finds nothing answers 404 and
\* leaves the store as it was.
C10_DeletePermanent ==
    /\ []((resp.op = "delete" /\ resp.code = 200) =>
            /\ GetAnswer(kv, resp.id).code = 404
            /\ ~Found(kv, resp.id)
            /\ \A b \in BOOLEAN :
                  \A i \in 1..Len(ListAnswer(kv, b).reports) :
                      ListAnswer(kv, b).reports[i].id # Str(resp.id))
    /\ [][/\ (resp'.op = "delete" /\ resp'.code = 200)
                => Cardinality(DOMAIN kv') = Cardinality(DOMAIN kv) - 1
          /\ \A r \in Slots :
                (req[r].op = "delete" /\ req[r].pc = "handler" /\ req'[r].pc # "handler")
                    => IF Key(IF req'[r].pc = "idle" THEN resp'.id ELSE req'[r].id)
                             \in DOMAIN kv
                       THEN req'[r].pc = "kvdel" /\ resp' = NoResp
                       ELSE req'[r].pc = "idle" /\ resp'.code = 404 /\ kv' = kv]_vars

C10_Witness ==
    /\ resp.op = "delete" /\ resp.code = 200
    /\ GetAnswer(kv, resp.id).code = 404
    /\ DOMAIN kv # {}

\* C11 as stated: once a report is absent it stays absent until a create writes
\* it: no other request adds a key, and a status update whose report is absent
\* when it writes answers 404 and writes nothing.
C11_NoResurrection ==
    [][/\ \A k \in DOMAIN kv' \ DOMAIN kv : resp'.op = "create"
       /\ (resp'.op = "patch" /\ resp'.code # 401 /\ resp'.code # 400
             /\ Key(resp'.id) \notin DOMAIN kv)
            => (resp'.code = 404 /\ kv' = kv)]_vars

\* C12: a status update that has read its report always completes with 200, its
\* write stores exactly the record it read with status replaced by the requested
\* one of the three statuses, so after the writes of two concurrent updates the
\* stored status is that of the later write and the other fields are as read;
\* the other update, still waiting, is not disturbed.
C12_LastWriteWins ==
    [][\A r \in Slots :
          (req[r].op = "patch" /\ req[r].pc = "kvset" /\ req'[r].pc = "idle")
            => LET k == Key(req[r].id)
               IN /\ resp'.op = "patch" /\ resp'.code = 200 /\ resp'.success
                  /\ req[r].body.status.s \in {"pending", "in-progress", "resolved"}
                  /\ k \in DOMAIN kv'
                  /\ kv'[k].status = req[r].body.status
                  /\ kv'[k].id = req[r].rep.id
                  /\ Unedited(req[r].rep, kv'[k])
                  /\ (k \in DOMAIN kv /\ Unedited(req[r].rep, kv[k]))
                        => Unedited(kv[k], kv'[k])
                  /\ \A q \in Slots \ {r} :
                        (req[q].op = "patch" /\ req[q].pc = "kvset") => req'[q] = req[q]]_vars

C12_Witness ==
    /\ resp.op = "patch" /\ resp.code = 200
    /\ resp.was.status = Str("pending")
    /\ kv[Key(resp.id)].status = resp.body.status
    /\ \E q \in Slots :
          /\ req[q].op = "patch" /\ req[q].pc = "kvset" /\ req[q].id = resp.id
          /\ req[q].rep.status = Str("pending")
          /\ req[q].body.status # resp.body.status

\* C13: an authorized status update is refused only for an invalid status (400)
\* or an absent report (404), never for the report's current status: with a
\* valid status and a stored report it answers 200 and the stored status is the
\* requested one, whatever it was.
C13_AnyTransition ==
    [][/\ (resp'.op = "patch" /\ resp'.user # Undef)
            => /\ resp'.code \in {200, 400, 404, 500}
               /\ resp'.code = 400 => BadStatus(resp'.body.status)
               /\ resp'.code = 404 => Key(resp'.id) \notin DOMAIN kv
               /\ resp'.code = 200
                    => /\ resp'.was.status.s \in {"pending", "in-progress", "resolved"}
                       /\ kv'[Key(resp'.id)].status = resp'.body.status
       /\ \A r \in Slots :
            (req[r].op = "patch" /\ req[r].pc = "handler" /\ req'[r].pc = "idle")
                => resp'.code = 400
       /\ \A r \in Slots :
            (req[r].op = "patch" /\ req[r].pc = "kvget" /\ req'[r].pc = "idle")
                => (resp'.code = 500 \/ Key(req[r].id) \notin DOMAIN kv)]_vars

C13_Witness ==
    /\ resp.op = "patch" /\ resp.code = 200
    /\ resp.was.status = Str("resolved")
    /\ resp.body.status = Str("pending")
    /\ kv[Key(resp.id)].status = Str("pending")

\* The store that holds the five samples and nothing else, and their ids from the
\* newest sample timestamp to the oldest.
SeededStore ==
    [k \in {Key(SampleReports[i].id.s) : i \in 1..Len(SampleReports)} |->
        SampleReports[CHOOSE i \in 1..Len(SampleReports) : Key(SampleReports[i].id.s) = k]]

NewestFirstIds ==
    << "1732784400000", "1732698000000", "1732611600000", "1732352400000",
       "1732179600000" >>

\* C14: a run of the seed that finds the store empty writes the five samples and
\* nothing else, after which the list is those five newest first; a run that
\* finds a report writes nothing and ends.
C14_SeedIdempotent ==
    [][/\ (seed.pc = "scan" /\ seed'.pc # "scan")
            => /\ kv' = kv
               /\ IF DOMAIN kv = {} THEN seed'.pc = "write" ELSE seed'.pc = "done"
       /\ (seed.pc = "write" /\ seed'.pc = "done")
            => /\ kv' = SeededStore
               /\ Cardinality(DOMAIN kv') = 5
               /\ \A b \in BOOLEAN :
                     LET out == ListAnswer(kv', b).reports
                     IN /\ Len(out) = 5
                        /\ \A i \in 1..5 : out[i].id = Str(NewestFirstIds[i])
       /\ seed.pc = "write" => DOMAIN kv \subseteq DOMAIN SeededStore]_vars

C14_Witness ==
    /\ seed.pc = "done" /\ kv = SeededStore
    /\ resp.op = "list" /\ Len(resp.reports) = 5
    /\ \A i \in 1..5 : resp.reports[i].id = Str(NewestFirstIds[i])

\* The account, if any, that an email and password belong to.
Holder(body) ==
    {a \in Accounts : body.email = Str(a.email) /\ body.password = Str(a.password)}

\* C15: login answers 200 with a user and a session only for the credentials of
\* an account with the admin role; a missing email or password is answered 400
\* without a call of the identity provider; credentials of no account are
\* answered 401; those of an account without the admin role 403; and no answer
\* but 200 carries a user or session tokens.
C15_LoginAdminOnly ==
    /\ \A r \in Slots :
          req[r].op = "login" => ~Blank(req[r].body.email) /\ ~Blank(req[r].body.password)
    /\ (resp.op = "login" /\ resp.body # Malformed) =>
          /\ (Blank(resp.body.email) \/ Blank(resp.body.password))
                => resp.code = 400 /\ resp.extops = 0
          /\ (~Blank(resp.body.email) /\ ~Blank(resp.body.password)
                /\ Holder(resp.body) = {}) => resp.code = 401
          /\ (\E a \in Holder(resp.body) : a.user.role # Str("admin")) => resp.code = 403
          /\ resp.code = 200
                => \E a \in Holder(resp.body) :
                      /\ a.user.role = Str("admin")
                      /\ resp.payload.user.role = Str("admin")
                      /\ resp.payload.user.email = Str(a.email)
                      /\ resp.payload.session.access_token = Str(a.token)
          /\ resp.code # 200 => resp.payload = Undef

C15_Witness ==
    /\ resp.op = "login" /\ resp.code = 403
    /\ resp.body.email = Str("citizen@example.com")
    /\ resp.payload = Undef /\ resp.extops = 1

\* C16: an upload of an allowed image type is refused with 400 exactly when its
\* size exceeds 5,242,880 bytes; an upload of another type is refused with 400;
\* a refused upload made no call of the blob store, and only files that pass both
\* tests reach it.
C16_UploadBounds ==
    /\ \A r \in Slots :
          req[r].op = "upload"
            => /\ req[r].body.type \in {"image/jpeg", "image/jpg", "image/png", "image/webp"}
               /\ req[r].body.size <= 5242880
    /\ (resp.op = "upload" /\ resp.body # Undef) =>
          /\ resp.body.type \in {"image/jpeg", "image/jpg", "image/png", "image/webp"}
                => (resp.code = 400 <=> resp.body.size > 5242880)
          /\ resp.body.type \notin {"image/jpeg", "image/jpg", "image/png", "image/webp"}
                => resp.code = 400
          /\ resp.code = 400 => resp.extops = 0
          /\ resp.code # 400 => resp.extops >= 1

C16_Witness ==
    /\ resp.op = "upload" /\ resp.code = 200
    /\ resp.body.size = 5242880
    /\ resp.payload.imageUrl.t = "string"

\* C17: every answer carries a boolean success that is true exactly when the
\* code is 200, and every other answer has one of the codes 400, 401, 403, 404,
\* 500 and a non-empty error string.
C17_Envelope ==
    resp.op # "" =>
        /\ resp.success \in BOOLEAN
        /\ resp.success <=> resp.code = 200
        /\ resp.code # 200
              => /\ resp.code \in {400, 401, 403, 404, 500}
                 /\ resp.error.t = "string" /\ resp.error.s # ""

C17_Witness ==
    /\ resp.op = "get" /\ resp.code = 404
    /\ ~resp.success /\ resp.error = Str("Report not found")

ReportOps == {"list", "get", "create", "patch", "delete"}

\* C18: a 500 answer of a report route is given in the step in which a store
\* call fails, with success false, after exactly one more store call than the
\* request had made before, and the store is unchanged by that step; so a status
\* update whose write fails leaves the record as it was read.
C18_StoreFailure ==
    [][(resp'.op \in ReportOps /\ resp'.code = 500)
         => /\ ~resp'.success
            /\ kv' = kv
            /\ \A r \in Slots : req'[r].pc = "idle" \/ req'[r] = req[r]
            /\ IF \E r \in Slots : req[r].pc # "idle" /\ req'[r].pc = "idle"
               THEN \E r \in Slots :
                       /\ req[r].pc # "idle" /\ req'[r].pc = "idle"
                       /\ resp'.kvops = req[r].kvops + 1
               ELSE resp'.kvops = 1]_vars

C18_Witness ==
    /\ resp.op = "patch" /\ resp.code = 500 /\ resp.kvops = 2
    /\ resp.body.status # resp.was.status
    /\ kv[Key(resp.id)] = resp.was

\* C19 as stated: the health check always answers success with the number of
\* stored reports.
C19_HealthNeverFails ==
    resp.op = "health" =>
        /\ resp.code = 200 /\ resp.success
        /\ resp.payload.services.reports_count = Cardinality(DOMAIN kv)

\* C19 amended: the health check answers 200 "healthy" with the number of stored
\* reports, the database "connected" and the storage "ready" or "bucket
\* missing"; or, when the store call fails, 500 "unhealthy" with success false,
\* the store's error message and no services.
C19_HealthPartial ==
    resp.op = "health" =>
        \/ /\ resp.code = 200 /\ resp.success
           /\ resp.payload.status = "healthy"
           /\ resp.payload.services.reports_count = Cardinality(DOMAIN kv)
           /\ resp.payload.services.database = "connected"
           /\ resp.payload.services.storage \in {"ready", "bucket missing"}
           /\ resp.payload.services.auth = "ready"
        \/ /\ resp.code = 500 /\ ~resp.success
           /\ resp.payload = [status |-> "unhealthy"]
           /\ resp.error.t = "string"

C19_Witness ==
    /\ resp.op = "health" /\ resp.code = 200
    /\ resp.payload.services.storage = "bucket missing"
    /\ resp.payload.services.reports_count > Len(SampleReports)

TimestampOrZero(e) == IF e.timestamp = Undef THEN 0 ELSE e.timestamp.n

C22_KeyIsId ==
    \A k \in DOMAIN kv : k = Key(kv[k].id.s)

\* A status update has been written to a store that holds seeded samples and a
\* created report.
C22_Witness ==
    /\ resp.op = "patch" /\ resp.code = 200
    /\ \E k \in DOMAIN kv : k \in DOMAIN SeededStore
    /\ \E k \in DOMAIN kv : k \notin DOMAIN SeededStore
    /\ seed.pc = "done"

\* C23: for every stored report the id is the decimal string of its timestamp.
C23_IdIsTimestamp ==
    \A k \in DOMAIN kv :
        kv[k].id = Str(NumToString(kv[k].timestamp.n))

\* C24: a step that answers a status update or a delete of report X with 200
\* changes only the store entry of X: every other entry is as before and no key
\* is added.
C24_OnlyTarget ==
    [][(resp'.op \in Mutating /\ resp'.code = 200) =>
          /\ \A k \in DOMAIN kv \ {Key(resp'.id)} : k \in DOMAIN kv' /\ kv'[k] = kv[k]
          /\ DOMAIN kv' \subseteq DOMAIN kv]_vars

ReadOnlyOps == {"list", "get", "health", "verify"}

\* C25: the step that answers a list, get-one, health or verify request, and
\* the step that answers any request with a 4xx code, leave the report store as
\* it was; and the store is changed only by a step of the seeding or by the
\* step that answers a create, status update or delete with 200, so no earlier
\* step of a request that ends in 4xx has changed it either.
C25_ReadsAndRejectionsKeepStore ==
    [][/\ (resp'.op \in ReadOnlyOps \/ resp'.code \in 400..499) => kv' = kv
       /\ kv' # kv =>
            \/ seed.pc = "write" /\ seed' # seed
            \/ /\ resp'.op \in {"create", "patch", "delete"}
               /\ resp'.code = 200]_vars

\* A status update of a report that is not stored has been answered 404 by a
\* service whose store holds reports.
C25_Witness ==
    /\ resp.op = "patch" /\ resp.code = 404
    /\ resp.kvops = 1
    /\ kv # <<>>

\* C26: a step that answers a delete of report X with 200 removes a report that
\* was stored until then (so of two concurrent deletes of X only one succeeds).
C26_AtMostOneSuccess ==
    [][(resp'.op = "delete" /\ resp'.code = 200) => Key(resp'.id) \in DOMAIN kv]_vars

\* C26 (amended): each of two concurrent deletes of X is answered by what its
\* own existence check saw. A delete passes its check only while X is stored
\* and is answered 404, with the store unchanged, only while X is not stored;
\* a delete that passed its check answers 200 after its kv.del, which removes
\* X if it is still stored and is a no-op otherwise, and leaves every other
\* entry alone. So both deletes answer 200 when both checks precede both
\* kv.del calls.
C26_DeleteByOwnCheck ==
    [][\A r \in Slots :
         (req[r].op = "delete" /\ req'[r] # req[r]) =>
            /\ (req[r].pc = "handler" /\ req'[r].pc = "kvdel") =>
                   /\ Key(req'[r].id) \in DOMAIN kv
                   /\ kv' = kv /\ resp' = NoResp
            /\ (req[r].pc = "handler" /\ req'[r].pc = "idle") =>
                   /\ resp'.op = "delete" /\ resp'.code = 404
                   /\ Key(resp'.id) \notin DOMAIN kv
                   /\ kv' = kv
            /\ req[r].pc = "kvdel" =>
                   /\ req'[r].pc = "idle"
                   /\ resp'.op = "delete" /\ resp'.code = 200 /\ resp'.success
                   /\ resp'.id = req[r].id
                   /\ DOMAIN kv' = DOMAIN kv \ {Key(req[r].id)}
                   /\ \A k \in DOMAIN kv' : kv'[k] = kv[k]]_vars

\* A delete of X has been answered 200 and X is gone, while another delete of X
\* that passed its existence check has yet to call kv.del.
C26_Witness ==
    /\ resp.op = "delete" /\ resp.code = 200
    /\ Key(resp.id) \notin DOMAIN kv
    /\ \E r \in Slots :
          /\ req[r].op = "delete" /\ req[r].pc = "kvdel"
          /\ req[r].id = resp.id

\* C27: whenever seedDatabase writes a sample report, the store holds no
\* user-created report: every entry present at a seeding write is a sample.
C27_SeedsOnlyEmptyStore ==
    [][(seed.pc = "write" /\ seed' # seed) =>
          \A k \in DOMAIN kv : k \in DOMAIN SeededStore /\ kv[k] = SeededStore[k]]_vars

\* C28: once a logout carrying the bearer token T has been answered with
\* success, the identity provider no longer resolves T, so the access guard
\* rejects a later status update or delete bearing T with 401.
C28_LogoutRevokes ==
    (/\ resp.op = "logout" /\ resp.code = 200 /\ resp.success
     /\ Truthy(BearerToken(resp.hdr)))
        => GetUser(BearerToken(resp.hdr)).error

\* C29: the client renders the admin dashboard only while isAuthenticated is
\* true: with view 'admin' and isAuthenticated false the login page is shown,
\* also while the first auth check is in flight.
C29_DashboardNeedsAuth ==
    Render(app) = "dashboard" => app.isAuthenticated

\* What the client's list holds for a report.
Local(id) ==
    IF \E i \in 1..Len(app.reports) : app.reports[i].id = id
    THEN app.reports[CHOOSE i \in 1..Len(app.reports) : app.reports[i].id = id].status
    ELSE "absent"

\* C30: the client's list reflects every completed server change: once its
\* calls have all been answered, the loaded list holds each report with the
\* status the service holds, whatever the order of the answers.
C30_LocalReflectsServer ==
    (/\ \A c \in Slots : app.calls[c].kind = "idle"
     /\ ~app.loading /\ ~app.error)
        => \A id \in AppAllIds : Local(id) = app.server[id]

====
